---- MODULE Spec2Model ----
(***************************************************************************)
(* Model of the OAuth client's CSRF state lifecycle: the in-memory TTL     *)
(* store (InMemoryTTLStore) and the SesameSSO operations that use it.      *)
(***************************************************************************)
EXTENDS Integers, Sequences, FiniteSets, Bags, TLC

\* ------------------------------------------------------------------ bounds
\* Number of distinct keys / state tokens the model draws from.
NumKeys == 3
\* Date.now() ranges over 0..MaxTime.
MaxTime == 3
\* Number of exchangeCodeForToken calls that can be in flight together.
MaxCalls == 2

\* ----------------------------------------------------------- configuration
\* The constructor options of the store, scaled down to the model's clock
\* and key space: ttlMs (600_000), max (10_000), cleanupIntervalMs (60_000).
TtlMs == 2
StoreMax == 2
CleanupIntervalMs == 3

Keys == 1..NumKeys

\* ------------------------------------------------------------- JS values
\* Every JS value the model handles is a record [type, val] so that any two
\* of them can be compared.
Undefined == [type |-> "undefined", val |-> 0]
Str(n) == [type |-> "string", val |-> n]
Obj(n) == [type |-> "object", val |-> n]
Bool(b) == [type |-> "boolean", val |-> IF b THEN 1 ELSE 0]

\* An omitted (undefined) expiresAt argument of set.
Omitted == -1

\* The empty string passed as state.
EmptyState == 0

\* String literals of the configuration and of the callers, all different
\* from the state tokens Str(k), k in Keys; Str(0) is the empty string.
EmptyStr == Str(0)
ClientIdStr == Str(101)
ClientSecretStr == Str(102)
RedirectUriStr == Str(103)
BaseUrlStr == Str(104)
CodeStr == Str(105)
DefaultScopeStr == Str(106)
CallScopeStr == Str(107)
CallerStr == Str(109)

\* A SesameSSO constructed from a complete config and options = {}.
DefaultSso ==
    [constructed |-> TRUE, clientId |-> ClientIdStr,
     redirectUri |-> RedirectUriStr, defaultScope |-> EmptyStr]

\* --------------------------------------------------------------- variables
VARIABLES
    store,          \* this._store: a map key -> [value, expiresAt]
    now,            \* Date.now()
    cleanupTimer,   \* this._cleanupTimer: TRUE while the interval is armed, FALSE = null
    lastTick,       \* the time the interval was armed or last fired
    stopped,        \* history: stop() has been called
    op,             \* history: the last operation and what it returned
    calls,          \* the exchangeCodeForToken calls in flight: a bag of call records
    issued,         \* history of each state token: [status, expiresAt]
    remoteOps,      \* commands an asynchronous store has not yet executed
    sso             \* the SesameSSO instance: [constructed, clientId, redirectUri, defaultScope]

vars == <<store, now, cleanupTimer, lastTick, stopped, op, calls, issued, remoteOps, sso>>
ssoVars == <<calls, issued, remoteOps, sso>>

\* ------------------------------------------------------ InMemoryTTLStore
\* Mutant: the timer's period is cleanupIntervalMs, whatever ttlMs is.
IntervalIgnoresTtl == CleanupIntervalMs

Interval == IF CleanupIntervalMs < TtlMs THEN CleanupIntervalMs ELSE TtlMs

StoreSize(s) == Cardinality(DOMAIN s)

Restrict(s, D) == [k \in D |-> s[k]]

MapDelete(s, key) == Restrict(s, DOMAIN s \ {key})

\* Mutant: cleanup ignores the aggressive flag and removes expired entries only.
CleanupExpiredOnly(s, t, aggressive) ==
    Restrict(s, {k \in DOMAIN s : ~(s[k].expiresAt <= t)})

\* Mutant: cleanup compares with < and keeps an entry that expires right now.
CleanupStrict(s, t, aggressive) ==
    Restrict(s, {k \in DOMAIN s : ~(aggressive \/ s[k].expiresAt < t)})

Cleanup(s, t, aggressive) ==
    Restrict(s, {k \in DOMAIN s : ~(aggressive \/ s[k].expiresAt <= t)})

\* Mutant: set evicts one entry too early (size + 1 >= max).
StoreSetEvictsEarly(s, t, key, value, expiresAt) ==
    LET e  == IF expiresAt = Omitted THEN t + TtlMs ELSE expiresAt
        s1 == IF StoreSize(s) + 1 >= StoreMax THEN Cleanup(s, t, TRUE) ELSE s
    IN  [k \in DOMAIN s1 \cup {key} |->
            IF k = key THEN [value |-> value, expiresAt |-> e] ELSE s1[k]]

\* Mutant: set never evicts.
StoreSetNoEviction(s, t, key, value, expiresAt) ==
    LET e == IF expiresAt = Omitted THEN t + TtlMs ELSE expiresAt
    IN  [k \in DOMAIN s \cup {key} |->
            IF k = key THEN [value |-> value, expiresAt |-> e] ELSE s[k]]

\* Mutant: set inserts the entry first and evicts afterwards.
StoreSetInsertsFirst(s, t, key, value, expiresAt) ==
    LET e  == IF expiresAt = Omitted THEN t + TtlMs ELSE expiresAt
        s1 == [k \in DOMAIN s \cup {key} |->
                 IF k = key THEN [value |-> value, expiresAt |-> e] ELSE s[k]]
    IN  IF StoreSize(s) >= StoreMax THEN Cleanup(s1, t, TRUE) ELSE s1

\* Mutant: set leaves the entry of a key the map already holds as it is.
StoreSetKeepsFirst(s, t, key, value, expiresAt) ==
    LET e  == IF expiresAt = Omitted THEN t + TtlMs ELSE expiresAt
        s1 == IF StoreSize(s) >= StoreMax THEN Cleanup(s, t, TRUE) ELSE s
    IN  [k \in DOMAIN s1 \cup {key} |->
            IF k \in DOMAIN s1 THEN s1[k] ELSE [value |-> value, expiresAt |-> e]]

StoreSet(s, t, key, value, expiresAt) ==
    LET e  == IF expiresAt = Omitted THEN t + TtlMs ELSE expiresAt
        s1 == IF StoreSize(s) >= StoreMax THEN Cleanup(s, t, TRUE) ELSE s
    IN  [k \in DOMAIN s1 \cup {key} |->
            IF k = key THEN [value |-> value, expiresAt |-> e] ELSE s1[k]]

\* Mutant: get compares with < and keeps an entry that expires right now.
StoreGetStrict(s, t, key) ==
    IF key \notin DOMAIN s THEN [ret |-> Undefined, store |-> s]
    ELSE IF s[key].expiresAt < t
         THEN [ret |-> Undefined, store |-> MapDelete(s, key)]
         ELSE [ret |-> s[key].value, store |-> s]

\* get returns a value and may delete the entry: [ret, store].
StoreGet(s, t, key) ==
    IF key \notin DOMAIN s THEN [ret |-> Undefined, store |-> s]
    ELSE IF s[key].expiresAt <= t
         THEN [ret |-> Undefined, store |-> MapDelete(s, key)]
         ELSE [ret |-> s[key].value, store |-> s]

\* Mutant: has asks the map whether it holds the key, without the expiry check.
StoreHasNoExpiry(s, t, key) ==
    [ret |-> Bool(key \in DOMAIN s), store |-> s]

StoreHas(s, t, key) ==
    LET g == StoreGet(s, t, key)
    IN  [ret |-> Bool(g.ret # Undefined), store |-> g.store]

StoreDelete(s, key) == MapDelete(s, key)

\* Mutant: stop toggles the timer, so that a second stop arms it again.
StoreStopToggles(timer) == ~timer

\* Mutant: stop leaves the interval armed.
StoreStopKeepsTimer(timer) == timer

\* stop(): the timer field afterwards.
StoreStop(timer) == IF timer THEN FALSE ELSE timer

\* ----------------------------------------------------------------- Init
EmptyMap == [k \in {} |-> Undefined]

\* The record of an operation: its name, key and return value; for a set,
\* whether it found the store at capacity (full) and whether it removed an
\* unexpired entry of another key (lost) and whether its key was already in
\* the map (again); for a sweep tick, a get or a has, whether it found an
\* expired entry to remove (swept); for a stop or destroy, whether it
\* found the timer already cleared (again); for an exchangeCodeForToken
\* call, whether it passed validation, the error thrown and the requests
\* the call has issued; for a getLoginUrl, the query parameters of the URL
\* it returned (url) and the scope and extraParams it was given (args); for
\* a call that returned, what it returned (result): the keys of
\* exchangeCodeForToken's result object, "data" for a provider's response
\* body, "true" for revokeToken.
Op(name, key, ret) ==
    [name |-> name, key |-> key, ret |-> ret, full |-> FALSE, lost |-> FALSE,
     again |-> FALSE, swept |-> FALSE, url |-> <<>>, args |-> <<>>,
     result |-> {},
     validated |-> FALSE, error |-> "none", requests |-> <<>>]

Init ==
    /\ store = EmptyMap
    /\ now = 0
    /\ cleanupTimer = TRUE
    /\ lastTick = 0
    /\ stopped = FALSE
    /\ op = Op("new", 0, Undefined)
    /\ calls = EmptyBag
    /\ issued = [k \in Keys |-> [status |-> "never", expiresAt |-> 0]]
    /\ remoteOps = {}
    /\ sso = DefaultSso

\* ------------------------------------------------- direct store operations
Values == {Undefined, Str(1)}

\* The expiresAt arguments a caller passes: omitted (now + ttlMs), the
\* current time (the latest instant that is already expired) or the next
\* instant (the earliest that is not).
ExpiresArgs(t) == {Omitted, t, t + 1}

Set(key, value, expiresAt) ==
    /\ store' = StoreSet(store, now, key, value, expiresAt)
    /\ op' = [Op("set", key, Undefined) EXCEPT
                !.full = StoreSize(store) >= StoreMax,
                !.again = key \in DOMAIN store,
                !.lost = \E j \in DOMAIN store \ {key} :
                            /\ store[j].expiresAt > now
                            /\ j \notin DOMAIN StoreSet(store, now, key, value, expiresAt)]
    /\ UNCHANGED <<now, cleanupTimer, lastTick, stopped>>
    /\ UNCHANGED ssoVars

Get(key) ==
    /\ store' = StoreGet(store, now, key).store
    /\ op' = [Op("get", key, StoreGet(store, now, key).ret) EXCEPT
                !.swept = key \in DOMAIN store /\ store[key].expiresAt <= now]
    /\ UNCHANGED <<now, cleanupTimer, lastTick, stopped>>
    /\ UNCHANGED ssoVars

Has(key) ==
    /\ store' = StoreHas(store, now, key).store
    /\ op' = [Op("has", key, StoreHas(store, now, key).ret) EXCEPT
                !.swept = key \in DOMAIN store /\ store[key].expiresAt <= now]
    /\ UNCHANGED <<now, cleanupTimer, lastTick, stopped>>
    /\ UNCHANGED ssoVars

Delete(key) ==
    /\ store' = StoreDelete(store, key)
    /\ op' = Op("delete", key, Undefined)
    /\ UNCHANGED <<now, cleanupTimer, lastTick, stopped>>
    /\ UNCHANGED ssoVars

CleanupCall(aggressive) ==
    /\ store' = Cleanup(store, now, aggressive)
    /\ op' = Op("cleanup", 0, Bool(aggressive))
    /\ UNCHANGED <<now, cleanupTimer, lastTick, stopped>>
    /\ UNCHANGED ssoVars

\* The setInterval callback: () => this.cleanup().
Tick ==
    /\ cleanupTimer
    /\ now >= lastTick + Interval
    /\ store' = Cleanup(store, now, FALSE)
    /\ lastTick' = now
    /\ op' = [Op("tick", 0, Undefined) EXCEPT
                !.swept = \E k \in DOMAIN store : store[k].expiresAt <= now]
    /\ UNCHANGED <<now, cleanupTimer, stopped>>
    /\ UNCHANGED ssoVars

Stop ==
    /\ cleanupTimer' = StoreStop(cleanupTimer)
    /\ stopped' = TRUE
    /\ op' = [Op("stop", 0, Undefined) EXCEPT !.again = ~cleanupTimer]
    /\ UNCHANGED <<store, now, lastTick>>
    /\ UNCHANGED ssoVars

\* The clock moves on. The history of a state token that reaches its expiry
\* unvalidated becomes "expired".
AdvanceTime ==
    /\ now < MaxTime
    /\ now' = now + 1
    /\ issued' = [k \in Keys |->
            IF issued[k].status \in {"live", "evicted"} /\ issued[k].expiresAt <= now + 1
            THEN [status |-> "expired", expiresAt |-> 0]
            ELSE issued[k]]
    /\ op' = Op("time", 0, Undefined)
    /\ UNCHANGED <<store, cleanupTimer, lastTick, stopped, calls, remoteOps, sso>>

NextStore ==
    \/ \E k \in Keys, v \in Values, e \in ExpiresArgs(now) : Set(k, v, e)
    \/ \E k \in Keys : Get(k)
    \/ \E k \in Keys : Has(k)
    \/ \E k \in Keys : Delete(k)
    \/ \E a \in BOOLEAN : CleanupCall(a)
    \/ Tick
    \/ Stop
    \/ AdvanceTime

SpecStore == Init /\ [][NextStore]_vars

\* The sweep timer on schedule: the interval's callback runs when its period
\* has elapsed, before the clock moves further, for as long as the timer is
\* armed; the clock never stops before MaxTime.
TickDue == cleanupTimer /\ now >= lastTick + Interval

AdvanceTimeOnTime == ~TickDue /\ AdvanceTime

NextSweep ==
    \/ \E k \in Keys, v \in Values, e \in ExpiresArgs(now) : Set(k, v, e)
    \/ \E k \in Keys : Get(k)
    \/ \E k \in Keys : Delete(k)
    \/ Tick
    \/ Stop
    \/ AdvanceTimeOnTime

SpecSweep ==
    Init /\ [][NextSweep]_vars /\ WF_vars(Tick) /\ WF_vars(AdvanceTimeOnTime)

\* ------------------------------------------------ pluggable state store
\* The state store SesameSSO holds is either the bundled InMemoryTTLStore
\* ("memory") or a store whose methods are async functions, as the README's
\* RedisStateStore ("async"): every call returns a promise at once and its
\* command takes effect on the remote side later.
Promise(b) == [type |-> "promise", val |-> IF b THEN 1 ELSE 0]

\* JS truthiness: !v is true for false, undefined and the empty string;
\* objects (promises) are truthy.
Truthy(v) ==
    IF v.type = "boolean" THEN v.val = 1
    ELSE IF v.type = "string" THEN v.val # 0
    ELSE v.type # "undefined"

RemoteExists(s, t, key) == key \in DOMAIN s /\ s[key].expiresAt > t

AsyncHas(s, t, key) == [ret |-> Promise(RemoteExists(s, t, key)), store |-> s]

StateStoreHas(kind, s, t, key) ==
    IF kind = "memory" THEN StoreHas(s, t, key) ELSE AsyncHas(s, t, key)

\* Mutant: delete removes nothing.
StateStoreDeleteNothing(kind, s, key) == [store |-> s, ops |-> {}]

\* delete and set: the store afterwards and the remote commands sent.
StateStoreDelete(kind, s, key) ==
    IF kind = "memory"
    THEN [store |-> StoreDelete(s, key), ops |-> {}]
    ELSE [store |-> s, ops |-> {[cmd |-> "del", key |-> key, value |-> Undefined]}]

\* Mutant: the state store's set stores nothing.
StateStoreSetNothing(kind, s, t, key, value) ==
    [store |-> s, ops |-> {}]

StateStoreSet(kind, s, t, key, value) ==
    IF kind = "memory"
    THEN [store |-> StoreSet(s, t, key, value, Omitted), ops |-> {}]
    ELSE [store |-> s, ops |-> {[cmd |-> "setex", key |-> key, value |-> value]}]

\* ------------------------------------------------------------- SesameSSO
\* Mutant: _validateState does not remove the state it accepts.
ValidateStateKeeps(kind, s, t, state) ==
    IF state = EmptyState
    THEN [ret |-> FALSE, store |-> s, ops |-> {}]
    ELSE LET h == StateStoreHas(kind, s, t, state)
         IN  [ret |-> Truthy(h.ret), store |-> h.store, ops |-> {}]

\* _validateState: [ret, store, ops].
ValidateState(kind, s, t, state) ==
    IF state = EmptyState
    THEN [ret |-> FALSE, store |-> s, ops |-> {}]
    ELSE LET h == StateStoreHas(kind, s, t, state)
         IN  IF ~Truthy(h.ret)
             THEN [ret |-> FALSE, store |-> h.store, ops |-> {}]
             ELSE LET d == StateStoreDelete(kind, h.store, state)
                  IN  [ret |-> TRUE, store |-> d.store, ops |-> d.ops]

\* Mutant: exchangeCodeForToken sends the token request before it looks at
\* the result of the validation.
ExchangeStartUnchecked(kind, s, t, code, state) ==
    IF ~code
    THEN [error |-> "code required", validated |-> FALSE, requests |-> <<>>,
          store |-> s, ops |-> {}]
    ELSE LET v == ValidateState(kind, s, t, state)
         IN  [error |-> IF v.ret THEN "none" ELSE "csrf", validated |-> v.ret,
              requests |-> <<"token">>, store |-> v.store, ops |-> v.ops]

\* Mutant: exchangeCodeForToken only looks the state up before the token
\* request and leaves its removal for after the response.
ExchangeStartDefersDelete(kind, s, t, code, state) ==
    IF ~code
    THEN [error |-> "code required", validated |-> FALSE, requests |-> <<>>,
          store |-> s, ops |-> {}]
    ELSE LET v == ValidateStateKeeps(kind, s, t, state)
         IN  IF ~v.ret
             THEN [error |-> "csrf", validated |-> FALSE, requests |-> <<>>,
                   store |-> v.store, ops |-> {}]
             ELSE [error |-> "none", validated |-> TRUE, requests |-> <<"token">>,
                   store |-> v.store, ops |-> v.ops]

\* Mutant: exchangeCodeForToken validates the state before it checks the
\* code.
ExchangeStartValidatesFirst(kind, s, t, code, state) ==
    LET v == ValidateState(kind, s, t, state)
    IN  IF ~v.ret
        THEN [error |-> "csrf", validated |-> FALSE, requests |-> <<>>,
              store |-> v.store, ops |-> {}]
        ELSE IF ~code
             THEN [error |-> "code required", validated |-> FALSE,
                   requests |-> <<>>, store |-> v.store, ops |-> v.ops]
             ELSE [error |-> "none", validated |-> TRUE, requests |-> <<"token">>,
                   store |-> v.store, ops |-> v.ops]

\* exchangeCodeForToken up to its first await: the code check, the state
\* validation and the token request. code is TRUE for a non-empty code.
ExchangeStart(kind, s, t, code, state) ==
    IF ~code
    THEN [error |-> "code required", validated |-> FALSE, requests |-> <<>>,
          store |-> s, ops |-> {}]
    ELSE LET v == ValidateState(kind, s, t, state)
         IN  IF ~v.ret
             THEN [error |-> "csrf", validated |-> FALSE, requests |-> <<>>,
                   store |-> v.store, ops |-> {}]
             ELSE [error |-> "none", validated |-> TRUE, requests |-> <<"token">>,
                   store |-> v.store, ops |-> v.ops]

\* What the history says about a state at the moment it is submitted.
SubmitStatus(state) ==
    IF state = EmptyState THEN "empty" ELSE issued[state].status

\* A JS object with string keys: the sequence of its <<key, value>> pairs in
\* insertion order. Assigning to a key the object has keeps the key's place.
NoParams == <<>>

ObjHas(o, k) == \E i \in 1..Len(o) : o[i][1] = k

ObjGet(o, k) ==
    IF ObjHas(o, k) THEN o[CHOOSE i \in 1..Len(o) : o[i][1] = k][2] ELSE Undefined

ObjSet(o, k, v) ==
    IF ObjHas(o, k)
    THEN [i \in 1..Len(o) |-> IF o[i][1] = k THEN <<k, v>> ELSE o[i]]
    ELSE Append(o, <<k, v>>)

\* { ...o, ...src }
RECURSIVE ObjSpread(_, _)
ObjSpread(o, src) ==
    IF src = <<>> THEN o
    ELSE ObjSpread(ObjSet(o, Head(src)[1], Head(src)[2]), Tail(src))

\* Mutant: the library's keys are written after the caller's, so the
\* library's values win.
LoginUrlParamsLibraryWins(inst, state, scope, extraParams) ==
    LET finalScope == IF scope # Undefined THEN scope ELSE inst.defaultScope
        params == ObjSpread(extraParams,
                     << <<"client_id", inst.clientId>>,
                        <<"redirect_uri", inst.redirectUri>>,
                        <<"response_type", CodeStr>>,
                        <<"state", Str(state)>> >>)
    IN  IF Truthy(finalScope) THEN ObjSet(params, "scope", finalScope) ELSE params

\* Mutant: the resolved scope is written whenever the per-call scope or the
\* default scope is defined, empty or not.
LoginUrlParamsKeepsEmptyScope(inst, state, scope, extraParams) ==
    LET finalScope == IF scope # Undefined THEN scope ELSE inst.defaultScope
        params == ObjSpread(<< <<"client_id", inst.clientId>>,
                               <<"redirect_uri", inst.redirectUri>>,
                               <<"response_type", CodeStr>>,
                               <<"state", Str(state)>> >>, extraParams)
    IN  IF finalScope # Undefined THEN ObjSet(params, "scope", finalScope) ELSE params

\* The query parameters of the URL getLoginUrl builds, in the order
\* URLSearchParams serialises them.
LoginUrlParams(inst, state, scope, extraParams) ==
    LET finalScope == IF scope # Undefined THEN scope ELSE inst.defaultScope
        params == ObjSpread(<< <<"client_id", inst.clientId>>,
                               <<"redirect_uri", inst.redirectUri>>,
                               <<"response_type", CodeStr>>,
                               <<"state", Str(state)>> >>, extraParams)
    IN  IF Truthy(finalScope) THEN ObjSet(params, "scope", finalScope) ELSE params

\* getLoginUrl({ scope, extraParams }); key is what generateRandomHex(32)
\* returned.
GetLoginUrlWith(kind, key, scope, extraParams) ==
    /\ sso.constructed
    /\ LET r == StateStoreSet(kind, store, now, key, Obj(now))
           full == kind = "memory" /\ StoreSize(store) >= StoreMax
       IN  /\ store' = r.store
           /\ remoteOps' = remoteOps \cup r.ops
           /\ issued' = [k \in Keys |->
                IF k = key
                THEN [status |-> "live", expiresAt |-> now + TtlMs]
                ELSE IF full /\ issued[k].status = "live"
                     THEN [issued[k] EXCEPT !.status = "evicted"]
                     ELSE issued[k]]
    /\ op' = [Op("getLoginUrl", key, Str(key)) EXCEPT
                !.url = LoginUrlParams(sso, key, scope, extraParams),
                !.args = <<scope, extraParams>>]
    /\ UNCHANGED <<now, cleanupTimer, lastTick, stopped, calls, sso>>

\* getLoginUrl() without arguments.
GetLoginUrl(kind, key) == GetLoginUrlWith(kind, key, Undefined, NoParams)

\* A call that threw before its first await is never in flight; one that
\* issued the token request awaits the response.
ExchangeCodeForToken(kind, code, state, iu, ic) ==
    /\ BagCardinality(calls) < MaxCalls
    /\ LET r == ExchangeStart(kind, store, now, code, state)
       IN  /\ store' = r.store
           /\ remoteOps' = remoteOps \cup r.ops
           /\ calls' = IF r.error # "none" THEN calls
                       ELSE calls (+) SetToBag({
                              [fn |-> "exchangeCodeForToken",
                               pc |-> "awaitToken", state |-> state,
                               validated |-> r.validated, result |-> {},
                               includeUserInfo |-> iu,
                               includeSesameCredentials |-> ic,
                               requests |-> r.requests]})
           /\ issued' = IF r.validated
                        THEN [issued EXCEPT ![state] =
                                 [status |-> "consumed", expiresAt |-> 0]]
                        ELSE issued
           /\ op' = [Op("exchange", state, Undefined) EXCEPT
                        !.validated = r.validated,
                        !.error = r.error, !.requests = r.requests]
    /\ UNCHANGED <<now, cleanupTimer, lastTick, stopped, sso>>

\* The fields of result that exchangeCodeForToken fills from the token response.
TokenFields == {"accessToken", "refreshToken", "expiresIn", "tokenType"}

\* The steps of exchangeCodeForToken after the token response.
AfterUserInfo(call) ==
    IF call.includeSesameCredentials
    THEN [call EXCEPT !.pc = "awaitCredentials",
                      !.requests = Append(@, "credentials")]
    ELSE [call EXCEPT !.pc = "done"]

\* Mutant: the userinfo request is sent whatever options.includeUserInfo says.
AfterTokenAlwaysUserInfo(call) ==
    [call EXCEPT !.pc = "awaitUserInfo", !.requests = Append(@, "userinfo")]

AfterToken(call) ==
    IF call.includeUserInfo
    THEN [call EXCEPT !.pc = "awaitUserInfo",
                      !.requests = Append(@, "userinfo")]
    ELSE AfterUserInfo(call)

\* Mutant: a failed request is sent again and the call stays in flight.
SettleRetries(c, call, error) ==
    /\ calls' = IF error = "none" /\ call.pc # "done"
                THEN (calls (-) SetToBag({c})) (+) SetToBag({call})
                ELSE IF error # "none" /\ Len(c.requests) < 4
                THEN (calls (-) SetToBag({c})) (+) SetToBag({
                        [c EXCEPT !.requests = Append(@, c.requests[Len(c.requests)])]})
                ELSE calls (-) SetToBag({c})
    /\ op' = [Op(IF error # "none" THEN "threw"
                 ELSE IF call.pc = "done" THEN "returned" ELSE "response",
                 0, Undefined) EXCEPT
                 !.validated = call.validated, !.error = error,
                 !.requests = call.requests,
                 !.result = IF error = "none" /\ call.pc = "done"
                            THEN call.result ELSE {}]
    /\ UNCHANGED <<store, now, cleanupTimer, lastTick, stopped, issued, remoteOps, sso>>

\* The call c moves on as call: it stays in flight while it awaits another
\* response and leaves when it returns or throws.
Settle(c, call, error) ==
    /\ calls' = IF error = "none" /\ call.pc # "done"
                THEN (calls (-) SetToBag({c})) (+) SetToBag({call})
                ELSE calls (-) SetToBag({c})
    /\ op' = [Op(IF error # "none" THEN "threw"
                 ELSE IF call.pc = "done" THEN "returned" ELSE "response",
                 0, Undefined) EXCEPT
                 !.validated = call.validated, !.error = error,
                 !.requests = call.requests,
                 !.result = IF error = "none" /\ call.pc = "done"
                            THEN call.result ELSE {}]
    /\ UNCHANGED <<store, now, cleanupTimer, lastTick, stopped, issued, remoteOps, sso>>

\* The provider's answer to POST /oauth/token reaches _fetchToken.
TokenResponse(c, outcome) ==
    /\ c.pc = "awaitToken"
    /\ IF outcome = "ok"
       THEN Settle(c, AfterToken([c EXCEPT !.result = TokenFields]), "none")
       ELSE Settle(c, c, "token exchange")

UserInfoResponse(c, ok) ==
    /\ c.pc = "awaitUserInfo"
    /\ IF ok
       THEN Settle(c, AfterUserInfo([c EXCEPT !.result = @ \cup {"userData"}]), "none")
       ELSE Settle(c, c, "userinfo fetch")

CredentialsResponse(c, ok) ==
    /\ c.pc = "awaitCredentials"
    /\ IF ok
       THEN Settle(c, [c EXCEPT !.pc = "done",
                                !.result = @ \cup {"sesameCredentials"}], "none")
       ELSE Settle(c, c, "sesame credentials fetch")

\* destroy(): stops the store's timer when the store has a stop method.
Destroy(kind) ==
    /\ cleanupTimer' = IF kind = "memory" THEN StoreStop(cleanupTimer) ELSE cleanupTimer
    /\ stopped' = IF kind = "memory" THEN TRUE ELSE stopped
    /\ op' = [Op("destroy", 0, Undefined) EXCEPT !.again = ~cleanupTimer]
    /\ UNCHANGED <<store, now, lastTick, calls, issued, remoteOps, sso>>

TokenOutcomes == {"ok", "no access_token", "error"}

OneAtATime == calls = EmptyBag

\* The CSRF state lifecycle with the bundled store over time: logins,
\* callbacks arriving one at a time that ask for the token only, the sweep
\* timer, destroy and the clock.
Next ==
    \/ \E k \in Keys : GetLoginUrl("memory", k)
    \/ \E s \in Keys \cup {EmptyState} :
            OneAtATime /\ ExchangeCodeForToken("memory", TRUE, s, FALSE, FALSE)
    \/ \E c \in BagToSet(calls), o \in TokenOutcomes : TokenResponse(c, o)
    \/ Tick
    \/ Destroy("memory")
    \/ AdvanceTime

Spec == Init /\ [][Next]_vars

\* Concurrent callbacks: up to MaxCalls calls in flight together, at one
\* instant of the clock.
NextConcurrent ==
    \/ \E k \in Keys : GetLoginUrl("memory", k)
    \/ \E s \in Keys \cup {EmptyState} :
            ExchangeCodeForToken("memory", TRUE, s, FALSE, FALSE)
    \/ \E c \in BagToSet(calls), o \in TokenOutcomes : TokenResponse(c, o)

SpecConcurrent == Init /\ [][NextConcurrent]_vars

\* One callback at a time through every step of exchangeCodeForToken, with
\* every combination of code and options, at one instant of the clock.
NextFlow ==
    \/ \E k \in Keys : GetLoginUrl("memory", k)
    \/ \E code \in BOOLEAN, s \in Keys \cup {EmptyState},
          iu \in BOOLEAN, ic \in BOOLEAN :
            OneAtATime /\ ExchangeCodeForToken("memory", code, s, iu, ic)
    \/ \E c \in BagToSet(calls), o \in TokenOutcomes : TokenResponse(c, o)
    \/ \E c \in BagToSet(calls), ok \in BOOLEAN : UserInfoResponse(c, ok)
    \/ \E c \in BagToSet(calls), ok \in BOOLEAN : CredentialsResponse(c, ok)

SpecFlow == Init /\ [][NextFlow]_vars

\* The store's whole lifetime: every store operation, the timer, the clock,
\* and destroy() of the SesameSSO that owns the store.
NextLifetime ==
    \/ NextStore
    \/ Destroy("memory")

SpecLifetime == Init /\ [][NextLifetime]_vars

\* ------------------------------------------- the single-request operations
\* refreshToken, revokeToken, getUserInfo and getSesameCredentials called
\* by the application: an argument check, one request, one response.
ApiFns == {"refreshToken", "revokeToken", "getUserInfo", "getSesameCredentials"}

RequestOf(fn) ==
    CASE fn = "refreshToken" -> "refresh"
      [] fn = "revokeToken" -> "revoke"
      [] fn = "getUserInfo" -> "userinfo"
      [] fn = "getSesameCredentials" -> "credentials"

ArgError(fn) ==
    CASE fn = "refreshToken" -> "refresh_token is required"
      [] fn = "revokeToken" -> "token is required"
      [] fn = "getUserInfo" -> "access_token is required"
      [] fn = "getSesameCredentials" -> "access_token is required"

\* The context formatOAuthError is given.
ErrorContext(fn) ==
    CASE fn = "refreshToken" -> "token refresh"
      [] fn = "revokeToken" -> "token revoke"
      [] fn = "getUserInfo" -> "userinfo fetch"
      [] fn = "getSesameCredentials" -> "sesame credentials fetch"

\* Mutant: the request is sent before the argument is looked at.
CallStartUnchecked(fn, arg) ==
    [error |-> IF arg THEN "none" ELSE ArgError(fn),
     requests |-> <<RequestOf(fn)>>]

\* The call up to its await; arg is TRUE for a non-empty argument.
CallStart(fn, arg) ==
    IF ~arg
    THEN [error |-> ArgError(fn), requests |-> <<>>]
    ELSE [error |-> "none", requests |-> <<RequestOf(fn)>>]

ApiCall(fn, arg) ==
    /\ BagCardinality(calls) < MaxCalls
    /\ LET r == CallStart(fn, arg)
       IN  /\ calls' = IF r.error # "none" THEN calls
                       ELSE calls (+) SetToBag({
                              [fn |-> fn, pc |-> "awaitResponse",
                               state |-> EmptyState,
                               validated |-> FALSE, result |-> {},
                               includeUserInfo |-> FALSE,
                               includeSesameCredentials |-> FALSE,
                               requests |-> r.requests]})
           /\ op' = [Op(fn, 0, Undefined) EXCEPT
                        !.error = r.error, !.requests = r.requests]
    /\ UNCHANGED <<store, now, cleanupTimer, lastTick, stopped, issued, remoteOps, sso>>

\* What reaches the caller's try block: a 2xx response whose body has an
\* access_token or has none, a 404, another status, or no response at all.
ApiOutcomes == {"2xx", "2xx no access_token", "404", "500", "network"}

Is2xx(outcome) == outcome \in {"2xx", "2xx no access_token"}

\* Mutant: revokeToken reports a 404 as every other failure.
ApiResultGeneric404(fn, outcome) ==
    IF Is2xx(outcome) /\ ~(fn = "refreshToken" /\ outcome = "2xx no access_token")
    THEN [error |-> "none", result |-> IF fn = "revokeToken" THEN {"true"} ELSE {"data"}]
    ELSE [error |-> ErrorContext(fn), result |-> {}]

\* The error thrown or the value returned for an outcome.
ApiResult(fn, outcome) ==
    IF Is2xx(outcome) /\ ~(fn = "refreshToken" /\ outcome = "2xx no access_token")
    THEN [error |-> "none", result |-> IF fn = "revokeToken" THEN {"true"} ELSE {"data"}]
    ELSE IF fn = "revokeToken" /\ outcome = "404"
    THEN [error |-> "revocation endpoint not found", result |-> {}]
    ELSE [error |-> ErrorContext(fn), result |-> {}]

ApiResponse(c, outcome) ==
    /\ c.pc = "awaitResponse"
    /\ LET r == ApiResult(c.fn, outcome)
       IN  Settle(c, [c EXCEPT !.pc = "done", !.result = r.result], r.error)

\* Every operation that talks to the provider, one call at a time.
NextApi ==
    \/ NextFlow
    \/ \E fn \in ApiFns, arg \in BOOLEAN : OneAtATime /\ ApiCall(fn, arg)
    \/ \E c \in BagToSet(calls), o \in ApiOutcomes : ApiResponse(c, o)

SpecApi == Init /\ [][NextApi]_vars

\* ------------------------------------------------ constructor and login URL
\* Before new SesameSSO(...): no instance, no store, no timer.
NoSso ==
    [constructed |-> FALSE, clientId |-> Undefined,
     redirectUri |-> Undefined, defaultScope |-> Undefined]

InitNew ==
    /\ store = EmptyMap
    /\ now = 0
    /\ cleanupTimer = FALSE
    /\ lastTick = 0
    /\ stopped = FALSE
    /\ op = Op("none", 0, Undefined)
    /\ calls = EmptyBag
    /\ issued = [k \in Keys |-> [status |-> "never", expiresAt |-> 0]]
    /\ remoteOps = {}
    /\ sso = NoSso

\* The config argument: undefined, or an object whose four fields are each
\* undefined, empty or set.
ConfigField(proper) == {Undefined, EmptyStr, proper}

Configs ==
    {Undefined} \cup
    [type : {"object"}, ssoBaseUrl : ConfigField(BaseUrlStr),
     clientId : ConfigField(ClientIdStr),
     clientSecret : ConfigField(ClientSecretStr),
     redirectUri : ConfigField(RedirectUriStr)]

\* config?.field
ConfigGet(config, field) ==
    IF config.type = "undefined" THEN Undefined ELSE config[field]

ConfigMissing(config) ==
    \/ ~Truthy(ConfigGet(config, "ssoBaseUrl"))
    \/ ~Truthy(ConfigGet(config, "clientId"))
    \/ ~Truthy(ConfigGet(config, "clientSecret"))
    \/ ~Truthy(ConfigGet(config, "redirectUri"))

\* Mutant: the state store is created before the config is validated.
ConstructResultStoreFirst(config, defaultScope) ==
    IF ConfigMissing(config)
    THEN [error |-> "config", sso |-> NoSso, timer |-> TRUE]
    ELSE [error |-> "none", timer |-> TRUE,
          sso |-> [constructed |-> TRUE, clientId |-> config.clientId,
                   redirectUri |-> config.redirectUri,
                   defaultScope |-> IF Truthy(defaultScope) THEN defaultScope
                                    ELSE EmptyStr]]

\* The constructor: the error it throws, the instance and the store's timer.
ConstructResult(config, defaultScope) ==
    IF ConfigMissing(config)
    THEN [error |-> "config", sso |-> NoSso, timer |-> FALSE]
    ELSE [error |-> "none", timer |-> TRUE,
          sso |-> [constructed |-> TRUE, clientId |-> config.clientId,
                   redirectUri |-> config.redirectUri,
                   defaultScope |-> IF Truthy(defaultScope) THEN defaultScope
                                    ELSE EmptyStr]]

\* new SesameSSO(config, { defaultScope }).
Construct(config, defaultScope) ==
    /\ ~sso.constructed
    /\ LET r == ConstructResult(config, defaultScope)
       IN  /\ sso' = r.sso
           /\ cleanupTimer' = r.timer
           /\ op' = [Op("new", 0, Undefined) EXCEPT !.error = r.error]
    /\ store' = EmptyMap
    /\ lastTick' = now
    /\ UNCHANGED <<now, stopped, calls, issued, remoteOps>>

ScopeArgs == {Undefined, EmptyStr, CallScopeStr}

DefaultScopeOptions == {Undefined, EmptyStr, DefaultScopeStr}

OverridableKeys == {"client_id", "redirect_uri", "response_type", "state", "scope"}

\* The extraParams a caller passes: none, a parameter of its own, one of the
\* library's keys, or all of them.
ExtraParamsArgs ==
    {NoParams, << <<"prompt", CallerStr>> >>}
    \cup {<< <<k, CallerStr>> >> : k \in OverridableKeys}
    \cup {<< <<"scope", CallerStr>>, <<"state", CallerStr>>,
             <<"response_type", CallerStr>>, <<"redirect_uri", CallerStr>>,
             <<"client_id", CallerStr>>, <<"prompt", CallerStr>> >>}

NextUrl ==
    \/ \E c \in Configs, d \in DefaultScopeOptions : Construct(c, d)
    \/ \E k \in Keys, s \in ScopeArgs, e \in ExtraParamsArgs :
            GetLoginUrlWith("memory", k, s, e)

SpecUrl == InitNew /\ [][NextUrl]_vars

\* The login round trip over time: login URLs built with and without a
\* caller's own state parameter, the provider's redirect back with the state
\* of the URL just built (one call in flight at a time), the token response,
\* and the clock.
LoginScopeArgs == {Undefined, CallScopeStr}

LoginExtraParamsArgs ==
    {NoParams, << <<"prompt", CallerStr>> >>, << <<"state", CallerStr>> >>}

\* The state query parameter of a login URL, as the key the provider sends
\* back to the redirect URI.
UrlState(url) == ObjGet(url, "state").val

Callback ==
    /\ op.name = "getLoginUrl"
    /\ OneAtATime
    /\ ExchangeCodeForToken("memory", TRUE, UrlState(op.url), FALSE, FALSE)

NextLogin ==
    \/ \E k \in Keys, s \in LoginScopeArgs, e \in LoginExtraParamsArgs :
            GetLoginUrlWith("memory", k, s, e)
    \/ Callback
    \/ \E c \in BagToSet(calls), o \in TokenOutcomes : TokenResponse(c, o)
    \/ AdvanceTime

SpecLogin == Init /\ [][NextLogin]_vars

\* Callbacks that fail their checks, over time: logins, callbacks with and
\* without a code that arrive one at a time, the token response, and the
\* clock without the sweep, so that expired states stay in the map.
NextReject ==
    \/ \E k \in Keys : GetLoginUrl("memory", k)
    \/ \E code \in BOOLEAN, s \in Keys \cup {EmptyState} :
            OneAtATime /\ ExchangeCodeForToken("memory", code, s, FALSE, FALSE)
    \/ \E c \in BagToSet(calls), o \in TokenOutcomes : TokenResponse(c, o)
    \/ AdvanceTime

SpecReject == Init /\ [][NextReject]_vars

\* ------------------------------------------- SesameSSO over an async store
\* The README's RedisStateStore has no timer and starts empty.
InitAsync ==
    /\ store = EmptyMap
    /\ now = 0
    /\ cleanupTimer = FALSE
    /\ lastTick = 0
    /\ stopped = FALSE
    /\ op = Op("new", 0, Undefined)
    /\ calls = EmptyBag
    /\ issued = [k \in Keys |-> [status |-> "never", expiresAt |-> 0]]
    /\ remoteOps = {}
    /\ sso = DefaultSso

\* The remote side executes a command. del removes the key. getLoginUrl
\* passes no expiresAt, so RedisStateStore.set computes its ttl from
\* undefined: the server either rejects the command or stores the key.
RemoteExec(o, accepted) ==
    /\ o \in remoteOps
    /\ remoteOps' = remoteOps \ {o}
    /\ store' = IF o.cmd = "del" THEN MapDelete(store, o.key)
                ELSE IF accepted
                THEN [k \in DOMAIN store \cup {o.key} |->
                        IF k = o.key
                        THEN [value |-> o.value, expiresAt |-> now + TtlMs]
                        ELSE store[k]]
                ELSE store
    /\ op' = Op("remote", o.key, Undefined)
    /\ UNCHANGED <<now, cleanupTimer, lastTick, stopped, calls, issued, sso>>

NextAsync ==
    \/ \E k \in Keys : GetLoginUrl("async", k)
    \/ \E s \in Keys \cup {EmptyState} :
            OneAtATime /\ ExchangeCodeForToken("async", TRUE, s, FALSE, FALSE)
    \/ \E c \in BagToSet(calls), o \in TokenOutcomes : TokenResponse(c, o)
    \/ \E o \in remoteOps, accepted \in BOOLEAN : RemoteExec(o, accepted)

SpecAsync == InitAsync /\ [][NextAsync]_vars

\* ================================================================ claims
\* A step that is an exchangeCodeForToken call carrying the state token k.
ExchangeOf(k) == op'.name = "exchange" /\ op'.key = k

\* ---------------------------------------------------------------- C1
\* C1 as stated: the first validation of an issued state before its expiry
\* passes, whatever happened between issuing and validating. (Before the
\* step the history of k is "live" or "evicted": issued, not yet expired,
\* not yet validated.)
C1_FirstValidationPasses ==
    [][\A k \in Keys :
        ExchangeOf(k) /\ issued[k].status \in {"live", "evicted"}
            => op'.validated]_vars

\* C1 as amended: the first validation of an issued state before its expiry
\* passes, provided no getLoginUrl call since it was issued found the store
\* at capacity (size >= max); further logins below capacity, validations of
\* other states, sweeps and destroy do not matter.
C1_FirstValidationPassesUnlessEvicted ==
    [][\A k \in Keys :
        ExchangeOf(k) /\ issued[k].status = "live"
            => op'.validated /\ op'.error = "none"]_vars

\* A state passed its first validation after the clock moved, a sweep ran,
\* another state was issued and a third one was validated.
C1_Witness ==
    /\ op.name = "exchange" /\ op.validated
    /\ lastTick > 0
    /\ \E j \in Keys \ {op.key} : issued[j].status = "live"
    /\ \E j \in Keys \ {op.key} : issued[j].status = "consumed"

\* ---------------------------------------------------------------- C2
\* C2: once a validation of s has succeeded, s is absent from the store, and
\* every later exchangeCodeForToken carrying s throws the CSRF error and
\* issues nothing, until getLoginUrl issues s again.
C2_NoReplay ==
    /\ [](\A k \in Keys : issued[k].status = "consumed" => k \notin DOMAIN store)
    /\ [][\A k \in Keys :
            ExchangeOf(k) /\ issued[k].status = "consumed"
                => /\ ~op'.validated
                   /\ op'.error = "csrf"
                   /\ op'.requests = <<>>
                   /\ calls' = calls]_vars

\* A replay was attempted and rejected.
C2_Witness ==
    /\ op.name = "exchange" /\ op.error = "csrf"
    /\ op.key \in Keys
    /\ issued[op.key].status = "consumed"

C4_AsyncStoreRejectsAbsentState ==
    [][\A k \in Keys :
        ExchangeOf(k) /\ ~RemoteExists(store, now, k)
            => op'.error = "csrf" /\ op'.requests = <<>>]_vars

\* ---------------------------------------------------------------- C5
\* C5 as stated: among concurrent calls carrying the same issued, unexpired
\* state exactly one passes, so a call carrying an issued state fails only
\* because another call consumed that state before it.
C5_LosersLostToAWinner ==
    [][\A k \in Keys :
        ExchangeOf(k) /\ issued[k].status # "never" /\ op'.error = "csrf"
            => issued[k].status = "consumed"]_vars

\* C5 as amended: among concurrent calls carrying the same issued, unexpired
\* state that the store still holds (no getLoginUrl call found the store at
\* capacity since it was issued), the first passes validation and consumes
\* the state, every other one throws the CSRF error and issues nothing; a
\* token request is issued exactly by the call that consumes the state.
C5_FirstConsumerWins ==
    [][\A k \in Keys :
        ExchangeOf(k) =>
            /\ issued[k].status = "live"
                  => op'.validated /\ issued'[k].status = "consumed"
            /\ issued[k].status = "consumed"
                  => op'.error = "csrf" /\ calls' = calls
            /\ op'.validated
                  => issued[k].status = "live" /\ issued'[k].status = "consumed"
            /\ (op'.requests = <<"token">>) = op'.validated
            /\ (op'.requests = <<>>) = ~op'.validated]_vars

\* A second call carrying a state was rejected while the call that consumed
\* that state is still waiting for its token response.
C5_Witness ==
    /\ op.name = "exchange" /\ op.error = "csrf"
    /\ op.key \in Keys
    /\ issued[op.key].status = "consumed"
    /\ \E c \in BagToSet(calls) : c.state = op.key /\ c.pc = "awaitToken"

\* ---------------------------------------------------------------- C6
\* C6: an entry whose expiresAt is at or before the current time is reported
\* absent by get (undefined) and by has (false) in every reachable state,
\* swept or not; a state submitted at or after its expiry fails validation.
C6_ExpiredIsAbsent ==
    /\ [](\A k \in DOMAIN store :
            store[k].expiresAt <= now
                => /\ StoreGet(store, now, k).ret = Undefined
                   /\ StoreHas(store, now, k).ret = Bool(FALSE))
    /\ [][\A k \in Keys :
            ExchangeOf(k) /\ issued[k].status = "expired"
                => ~op'.validated /\ op'.error = "csrf" /\ op'.requests = <<>>]_vars

\* A state that expired was rejected although no sweep had run since the
\* store was created.
C6_Witness ==
    /\ op.name = "exchange" /\ op.error = "csrf"
    /\ op.key \in Keys
    /\ issued[op.key].status = "expired"
    /\ lastTick = 0

\* ---------------------------------------------------------------- C7
\* C7: after any sequence of set, get, has, delete, cleanup, sweep ticks and
\* stop, the number of entries in the map never exceeds max.
C7_SizeNeverExceedsMax == StoreSize(store) <= StoreMax

\* A set found the store at capacity, after a sweep tick and a stop.
C7_Witness ==
    /\ op.name = "set" /\ op.full
    /\ op.key \in DOMAIN store
    /\ stopped /\ lastTick > 0

\* ---------------------------------------------------------------- C8
\* C8 as stated: a set on a store at capacity removes the entries that are
\* expired at that moment and only those; every other unexpired entry is
\* still there afterwards.
C8_EvictionRemovesOnlyExpired ==
    [][op'.name = "set" /\ StoreSize(store) >= StoreMax
        => \A j \in DOMAIN store \ {op'.key} :
              (store[j].expiresAt > now) = (j \in DOMAIN store')]_vars

\* C8 as amended: a set on a store at capacity removes every entry, expired
\* or not, and the store then holds the new entry alone; a set on a store
\* below capacity removes nothing.
C8_EvictionRemovesEverything ==
    [][op'.name = "set"
        => IF StoreSize(store) >= StoreMax
           THEN DOMAIN store' = {op'.key}
           ELSE /\ DOMAIN store' = DOMAIN store \cup {op'.key}
                /\ \A j \in DOMAIN store \ {op'.key} : store'[j] = store[j]]_vars

\* A set on a store at capacity removed an unexpired entry of another key.
C8_Witness ==
    /\ op.name = "set" /\ op.full /\ op.lost
    /\ DOMAIN store = {op.key}

\* ---------------------------------------------------------------- C9
\* C9: immediately after set(k, v, e) with a defined v and e later than now
\* (or omitted, which means now + ttlMs), get(k) returns v and has(k) is
\* true, whatever the fill level was: in every set step taken, and for every
\* set that could be made from a reachable state.
C9_SetThenGet ==
    /\ [][op'.name = "set" =>
            \A v \in Values \ {Undefined}, e \in {Omitted, now + 1} :
                Set(op'.key, v, e)
                    => /\ StoreGet(store', now', op'.key).ret = v
                       /\ StoreHas(store', now', op'.key).ret = Bool(TRUE)
                       /\ StoreGet(store', now', op'.key).store = store']_vars
    /\ [](\A k \in Keys, v \in Values \ {Undefined}, e \in {Omitted, now + 1} :
            LET s == StoreSet(store, now, k, v, e)
            IN  /\ StoreGet(s, now, k).ret = v
                /\ StoreHas(s, now, k).ret = Bool(TRUE))

\* A defined value was set with a future expiry on a store at capacity that
\* held no expired entry to make room.
C9_Witness ==
    /\ op.name = "set" /\ op.full /\ op.lost
    /\ store[op.key].value # Undefined
    /\ store[op.key].expiresAt > now

\* ---------------------------------------------------------------- C10
\* C10: after stop() no background sweep runs again; the passing of time
\* leaves the map unchanged, and only get, has, delete, cleanup or set
\* change it; get and has keep reporting an expired entry absent.
C10_NoSweepAfterStop ==
    /\ [][stopped => op'.name # "tick"]_vars
    /\ [][stopped /\ op'.name = "time" => store' = store]_vars
    /\ [][stopped /\ store' # store
            => op'.name \in {"get", "has", "delete", "cleanup", "set"}]_vars
    /\ [](stopped => ~cleanupTimer)
    /\ [](stopped => \A k \in DOMAIN store :
            store[k].expiresAt <= now
                => /\ StoreGet(store, now, k).ret = Undefined
                   /\ StoreHas(store, now, k).ret = Bool(FALSE)
                   /\ k \notin DOMAIN StoreGet(store, now, k).store)

\* After stop, time passed beyond the next due sweep and an entry that
\* expired since is still in the map.
C10_Witness ==
    /\ stopped /\ op.name = "time"
    /\ now >= lastTick + Interval
    /\ \E k \in DOMAIN store : store[k].expiresAt <= now

\* ---------------------------------------------------------------- C11
\* C11: stop(), and destroy() which calls it, can be taken in every
\* reachable state, any number of times; each leaves the stored entries
\* unchanged and the timer cleared, a repeated one changes nothing at all
\* but the record of the call, and no operation arms the timer again.
C11_StopIdempotent ==
    /\ [][op'.name \in {"stop", "destroy"}
            => /\ store' = store
               /\ ~cleanupTimer' /\ stopped'
               /\ now' = now /\ calls' = calls
               /\ StoreStop(cleanupTimer') = cleanupTimer']_vars
    /\ [][~cleanupTimer => ~cleanupTimer']_vars
    /\ [](StoreStop(StoreStop(cleanupTimer)) = StoreStop(cleanupTimer))
    /\ [](~StoreStop(cleanupTimer))

\* A stop or destroy found the timer already cleared, on a store that holds
\* an entry, after a sweep had run.
C11_Witness ==
    /\ op.name \in {"stop", "destroy"} /\ op.again
    /\ ~cleanupTimer
    /\ store # EmptyMap
    /\ lastTick > 0

\* ---------------------------------------------------------------- C12
\* C12: a sweep tick removes every entry whose expiresAt <= now and leaves
\* every other entry in the map with its value and expiresAt unchanged;
\* after the tick no expired entry remains, and the tick adds none.
C12_TickFrame ==
    [][op'.name = "tick"
        => /\ DOMAIN store' = {k \in DOMAIN store : store[k].expiresAt > now}
           /\ \A k \in DOMAIN store' : store'[k] = store[k]
           /\ \A k \in DOMAIN store' : store'[k].expiresAt > now'
           /\ now' = now]_vars

\* A tick removed an expired entry and left an unexpired one in the map.
C12_Witness ==
    /\ op.name = "tick" /\ op.swept
    /\ \E k \in DOMAIN store : store[k].expiresAt > now

\* ---------------------------------------------------------------- C13
\* The scope getLoginUrl resolved in the call recorded in op.
ResolvedScope ==
    IF op.args[1] # Undefined THEN op.args[1] ELSE sso.defaultScope

\* C13 as stated: every library key supplied in extraParams (client_id,
\* redirect_uri, response_type, state, scope) carries the caller's value in
\* the returned URL.
C13_ExtraParamsOverrideAll ==
    op.name = "getLoginUrl"
        => \A k \in OverridableKeys :
              ObjHas(op.args[2], k) => ObjGet(op.url, k) = ObjGet(op.args[2], k)

\* C13 as amended: client_id, redirect_uri, response_type and state supplied
\* in extraParams carry the caller's value, and so does every other extra
\* key; a scope supplied in extraParams appears only when the resolved scope
\* is empty, otherwise the resolved scope is the URL's scope.
C13_ExtraParamsOverrideAllButScope ==
    op.name = "getLoginUrl"
        => /\ \A i \in 1..Len(op.args[2]) :
                LET k == op.args[2][i][1]
                IN  k # "scope" => ObjGet(op.url, k) = op.args[2][i][2]
           /\ ObjHas(op.args[2], "scope")
                => ObjGet(op.url, "scope") =
                      IF Truthy(ResolvedScope) THEN ResolvedScope
                      ELSE ObjGet(op.args[2], "scope")
           /\ ~ObjHas(op.args[2], "client_id")
                => ObjGet(op.url, "client_id") = sso.clientId
           /\ ~ObjHas(op.args[2], "state")
                => ObjGet(op.url, "state") = op.ret

\* The caller overrode all five keys while passing a scope of its own: the
\* four others carry the caller's value, scope carries the per-call scope.
C13_Witness ==
    /\ op.name = "getLoginUrl"
    /\ \A k \in OverridableKeys : ObjHas(op.args[2], k)
    /\ op.args[1] = CallScopeStr
    /\ ObjGet(op.url, "state") = CallerStr
    /\ ObjGet(op.url, "client_id") = CallerStr
    /\ ObjGet(op.url, "scope") = CallScopeStr

\* ---------------------------------------------------------------- C14
\* C14 as stated: the URL has no scope parameter whenever the resolved scope
\* (the per-call scope when given, the default scope otherwise) is empty.
C14_NoScopeWhenResolvedEmpty ==
    op.name = "getLoginUrl" /\ ~Truthy(ResolvedScope)
        => ~ObjHas(op.url, "scope")

\* C14 as amended: when the resolved scope is non-empty the URL carries it
\* as scope; when it is empty the URL has no scope parameter unless
\* extraParams supplies one, which the URL then carries.
C14_ScopeResolution ==
    op.name = "getLoginUrl"
        => /\ Truthy(ResolvedScope)
                => ObjGet(op.url, "scope") = ResolvedScope
           /\ ~Truthy(ResolvedScope) /\ ~ObjHas(op.args[2], "scope")
                => ~ObjHas(op.url, "scope")
           /\ ~Truthy(ResolvedScope) /\ ObjHas(op.args[2], "scope")
                => ObjGet(op.url, "scope") = ObjGet(op.args[2], "scope")
           /\ op.args[1] = EmptyStr => ~Truthy(ResolvedScope)
           /\ op.args[1] = Undefined => ResolvedScope = sso.defaultScope

\* An empty per-call scope won over a non-empty default scope: no scope
\* parameter in the URL.
C14_Witness ==
    /\ op.name = "getLoginUrl"
    /\ op.args[1] = EmptyStr
    /\ sso.defaultScope = DefaultScopeStr
    /\ ~ObjHas(op.url, "scope")
    /\ ObjHas(op.url, "state")

\* ---------------------------------------------------------------- C17
\* C17: constructing SesameSSO with ssoBaseUrl, clientId, clientSecret or
\* redirectUri missing or empty (or with no config) throws the
\* configuration error and creates no instance, no store and no timer; as
\* long as no construction succeeded there is no timer, entry, or call.
C17_ConfigErrorBeforeAnything ==
    /\ [](\A c \in Configs, d \in DefaultScopeOptions :
            ConfigMissing(c)
                => /\ ConstructResult(c, d).error = "config"
                   /\ ~ConstructResult(c, d).timer
                   /\ ~ConstructResult(c, d).sso.constructed)
    /\ [](~sso.constructed
            => ~cleanupTimer /\ store = EmptyMap /\ calls = EmptyBag)
    /\ [][op'.name = "new" /\ op'.error = "config"
            => /\ ~sso'.constructed /\ ~cleanupTimer'
               /\ store' = EmptyMap /\ calls' = EmptyBag
               /\ remoteOps' = {}]_vars
    /\ [][op'.name = "new" /\ op'.error = "none"
            => sso'.constructed /\ cleanupTimer']_vars

\* A construction failed with the configuration error: nothing exists.
C17_Witness ==
    /\ op.name = "new" /\ op.error = "config"
    /\ ~sso.constructed /\ ~cleanupTimer

\* ---------------------------------------------------------------- C18
\* The requests of a successful exchangeCodeForToken with the given options.
ExpectedRequests(iu, ic) ==
    <<"token">> \o (IF iu THEN <<"userinfo">> ELSE <<>>)
                \o (IF ic THEN <<"credentials">> ELSE <<>>)

IsPrefix(s, r) == Len(s) <= Len(r) /\ \A i \in 1..Len(s) : s[i] = r[i]

\* C18: an exchangeCodeForToken call issues the token request first, then
\* the userinfo request only if includeUserInfo is not false, then the
\* credentials request only if includeSesameCredentials is not false; when
\* it returns it has issued exactly those, and its result holds userData and
\* sesameCredentials exactly when they were asked for.
C18_RequestOrder ==
    /\ [](\A c \in BagToSet(calls) :
            c.fn = "exchangeCodeForToken"
                => /\ c.requests # <<>>
                   /\ IsPrefix(c.requests,
                        ExpectedRequests(c.includeUserInfo, c.includeSesameCredentials)))
    /\ [][\A c \in BagToSet(calls) :
            /\ c.fn = "exchangeCodeForToken"
            /\ op'.name = "returned"
            /\ calls' = calls (-) SetToBag({c})
            => /\ op'.requests =
                    ExpectedRequests(c.includeUserInfo, c.includeSesameCredentials)
               /\ op'.result = TokenFields
                    \cup (IF c.includeUserInfo THEN {"userData"} ELSE {})
                    \cup (IF c.includeSesameCredentials
                          THEN {"sesameCredentials"} ELSE {})
               /\ (~c.includeUserInfo /\ ~c.includeSesameCredentials)
                    => Len(op'.requests) = 1]_vars

\* A call returned after the token, userinfo and credentials requests, in
\* that order, with both userData and sesameCredentials in its result.
C18_Witness ==
    /\ op.name = "returned"
    /\ op.requests = <<"token", "userinfo", "credentials">>
    /\ op.result = TokenFields \cup {"userData", "sesameCredentials"}

\* ---------------------------------------------------------------- C15
NoRepeats(s) == \A i, j \in 1..Len(s) : s[i] = s[j] => i = j

InputErrors ==
    {"code required", "csrf"} \cup {ArgError(fn) : fn \in ApiFns}

\* C15: no call ever issues the same request twice, a single-request
\* operation issues at most one; a provider or transport failure ends the
\* call at once with that one error and without a further request: after a
\* failed token request no userinfo or credentials request, after a failed
\* userinfo request no credentials request.
C15_NoRetries ==
    /\ [](\A c \in BagToSet(calls) :
            /\ NoRepeats(c.requests)
            /\ c.fn \in ApiFns => c.requests = <<RequestOf(c.fn)>>)
    /\ [](NoRepeats(op.requests))
    /\ [][op'.name = "threw"
            => /\ op'.error \notin InputErrors \cup {"none"}
               /\ \E c \in BagToSet(calls) :
                    /\ calls' = calls (-) SetToBag({c})
                    /\ op'.requests = c.requests
               /\ op'.error = "token exchange" => op'.requests = <<"token">>
               /\ op'.error = "userinfo fetch"
                    => "credentials" \notin {op'.requests[i] : i \in 1..Len(op'.requests)}
               /\ op'.result = {}]_vars

\* The userinfo request of an exchangeCodeForToken failed: the call ended
\* with that error after two requests, with nothing left in flight.
C15_Witness ==
    /\ op.name = "threw" /\ op.error = "userinfo fetch"
    /\ op.requests = <<"token", "userinfo">>
    /\ calls = EmptyBag

\* ---------------------------------------------------------------- C16
\* C16: exchangeCodeForToken with an empty code, refreshToken with an empty
\* refresh token, revokeToken with an empty token and getUserInfo /
\* getSesameCredentials with an empty access token each throw their
\* input-validation error, issue no request and leave nothing in flight.
C16_EmptyArgumentFailsFirst ==
    /\ [](\A fn \in ApiFns :
            /\ CallStart(fn, FALSE).error = ArgError(fn)
            /\ CallStart(fn, FALSE).requests = <<>>)
    /\ [](\A s \in Keys \cup {EmptyState} :
            LET r == ExchangeStart("memory", store, now, FALSE, s)
            IN  /\ r.error = "code required" /\ r.requests = <<>>
                /\ r.store = store /\ ~r.validated)
    /\ [](op.error \in {"code required"} \cup {ArgError(fn) : fn \in ApiFns}
            => op.requests = <<>>)
    /\ [][op'.error \in {"code required"} \cup {ArgError(fn) : fn \in ApiFns}
            => calls' = calls /\ store' = store /\ issued' = issued]_vars

\* revokeToken with an empty token was rejected while a state was live in
\* the store.
C16_Witness ==
    /\ op.name = "revokeToken" /\ op.error = "token is required"
    /\ op.requests = <<>>
    /\ store # EmptyMap

\* ---------------------------------------------------------------- C19
\* C19: revokeToken throws the dedicated endpoint-not-found error exactly
\* when the response is a 404, the generic token revoke error for every
\* other failure, and returns true exactly on a 2xx response.
C19_RevokeErrors ==
    /\ [](\A o \in ApiOutcomes :
            LET r == ApiResult("revokeToken", o)
            IN  /\ (r.error = "revocation endpoint not found") = (o = "404")
                /\ (r.error = "none") = Is2xx(o)
                /\ (r.error = ErrorContext("revokeToken")) = (~Is2xx(o) /\ o # "404")
                /\ (r.result = {"true"}) = Is2xx(o))
    /\ [][\A c \in BagToSet(calls), o \in ApiOutcomes :
            c.fn = "revokeToken" /\ ApiResponse(c, o)
                => /\ (op'.name = "returned") = Is2xx(o)
                   /\ (op'.error = "revocation endpoint not found") = (o = "404")
                   /\ (op'.result = {"true"}) = Is2xx(o)]_vars

\* A revokeToken call ended with the endpoint-not-found error.
C19_Witness ==
    /\ op.name = "threw" /\ op.error = "revocation endpoint not found"
    /\ op.requests = <<"revoke">>

\* ---------------------------------------------------------------- C20
\* The entry of k is in the map although it has expired.
ExpiredUnswept(k) == k \in DOMAIN store /\ store[k].expiresAt <= now

\* C20: while the timer is armed and runs on schedule, an expired entry is
\* in the map only within min(cleanupIntervalMs, ttlMs) of the timer's
\* previous tick (or of its arming), and every expired entry is eventually
\* removed (or overwritten, or the store stopped) even if nothing touches
\* its key; the clock of the model ends at MaxTime, so the entry must expire
\* one period before that.
C20_ExpiredEventuallySwept ==
    /\ [](\A k \in Keys :
            ExpiredUnswept(k) /\ cleanupTimer
                => /\ now - lastTick <= CleanupIntervalMs
                   /\ now - lastTick <= TtlMs)
    /\ \A k \in Keys :
            (ExpiredUnswept(k) /\ cleanupTimer /\ now + Interval <= MaxTime)
                ~> (~ExpiredUnswept(k) \/ ~cleanupTimer)
    /\ [][\A k \in Keys :
            ExpiredUnswept(k) /\ op'.name = "tick" => k \notin DOMAIN store']_vars

\* A tick found an expired entry and removed it; the store was never stopped.
C20_Witness ==
    /\ op.name = "tick" /\ op.swept
    /\ ~stopped /\ cleanupTimer
    /\ lastTick = now /\ lastTick > 0
    /\ \A k \in DOMAIN store : store[k].expiresAt > now

\* ---------------------------------------------------------------- C21
\* C21: in every reachable state has(key) is true exactly when the map
\* holds an unexpired entry for the key, whose stored value get(key)
\* returns.  The code compares get's result with undefined, so an
\* unexpired entry that stores undefined is reported as missing.
C21_HasIffStored ==
    \A k \in Keys :
        StoreHas(store, now, k).ret
            = Bool(k \in DOMAIN store /\ store[k].expiresAt > now)

\* What the code does for C21: has(key) is true exactly when get(key)
\* returns something other than undefined, and both leave the same map
\* behind; a get or has on an expired entry removes that entry and no
\* other (size decreases by one) and reports it absent, a get or has on an
\* unexpired or unknown key changes nothing.
C21_HasIsGet ==
    /\ [](\A k \in Keys :
            /\ StoreHas(store, now, k).ret
                  = Bool(StoreGet(store, now, k).ret # Undefined)
            /\ StoreHas(store, now, k).store = StoreGet(store, now, k).store)
    /\ [][op'.name \in {"get", "has"}
            => LET k == op'.key
               IN  IF k \in DOMAIN store /\ store[k].expiresAt <= now
                   THEN /\ DOMAIN store' = DOMAIN store \ {k}
                        /\ StoreSize(store') = StoreSize(store) - 1
                        /\ \A j \in DOMAIN store' : store'[j] = store[j]
                        /\ op'.ret \in {Undefined, Bool(FALSE)}
                   ELSE /\ store' = store
                        /\ op'.name = "has"
                              => op'.ret = Bool(k \in DOMAIN store
                                                /\ store[k].value # Undefined)
                        /\ op'.name = "get"
                              => op'.ret = IF k \in DOMAIN store
                                           THEN store[k].value ELSE Undefined]_vars

\* A has found an expired entry, removed it and reported it absent, and
\* left another entry in the map.
C21_Witness ==
    /\ op.name = "has" /\ op.swept
    /\ op.ret = Bool(FALSE)
    /\ op.key \notin DOMAIN store
    /\ store # EmptyMap

\* ---------------------------------------------------------------- C22
\* C22 as stated: set(k, v, e) on a key that is already present overwrites
\* k's value and expiry, does not increase the number of entries, and leaves
\* every other unexpired entry retrievable, at every fill level including
\* size = max.
C22_OverwriteKeepsOthers ==
    [][op'.name = "set" /\ op'.again =>
        \A v \in Values, e \in ExpiresArgs(now) :
            Set(op'.key, v, e)
                => LET k  == op'.key
                       ex == IF e = Omitted THEN now + TtlMs ELSE e
                   IN  /\ store'[k] = [value |-> v, expiresAt |-> ex]
                       /\ ex > now => StoreGet(store', now', k).ret = v
                       /\ StoreSize(store') <= StoreSize(store)
                       /\ \A j \in DOMAIN store \ {k} :
                            store[j].expiresAt > now
                                => /\ j \in DOMAIN store'
                                   /\ StoreGet(store', now', j).ret
                                         = store[j].value]_vars

\* C22: set(k, v, e) on a key that is already in the map overwrites k's
\* value and expiry (get(k) then returns v when e is later than now) and
\* does not increase the number of entries; below capacity every other
\* entry is left as it was, and at capacity (size >= max) every other entry
\* is removed, so the map then holds k alone.
C22_OverwriteFrame ==
    [][op'.name = "set" /\ op'.again =>
        \A v \in Values, e \in ExpiresArgs(now) :
            Set(op'.key, v, e)
                => LET k  == op'.key
                       ex == IF e = Omitted THEN now + TtlMs ELSE e
                   IN  /\ store'[k] = [value |-> v, expiresAt |-> ex]
                       /\ ex > now => StoreGet(store', now', k).ret = v
                       /\ StoreSize(store') <= StoreSize(store)
                       /\ IF StoreSize(store) < StoreMax
                          THEN /\ DOMAIN store' = DOMAIN store
                               /\ \A j \in DOMAIN store \ {k} :
                                    store'[j] = store[j]
                          ELSE DOMAIN store' = {k}]_vars

\* A key already in the map was set again on a store at capacity, and an
\* unexpired entry of another key went with the eviction.
C22_Witness ==
    /\ op.name = "set" /\ op.again /\ op.full /\ op.lost
    /\ DOMAIN store = {op.key}
    /\ store[op.key].value # Undefined

\* ---------------------------------------------------------------- C23
\* C23 as stated: after every getLoginUrl call, whatever scope and
\* extraParams it was given, the state parameter of the URL equals the
\* returned state, that state is the key just stored with expiry now + ttl,
\* and the provider's redirect with the URL's state passes validation.
C23_UrlStateIsReturnedState ==
    /\ [](op.name = "getLoginUrl"
            => /\ ObjGet(op.url, "state") = op.ret
               /\ op.ret = Str(op.key)
               /\ op.key \in DOMAIN store
               /\ store[op.key].expiresAt = now + TtlMs
               /\ ValidateState("memory", store, now, UrlState(op.url)).ret)
    /\ [][op.name = "getLoginUrl" /\ op'.name = "exchange"
            => op'.validated]_vars

\* C23: after every getLoginUrl call the returned state is the key just
\* stored with expiry now + ttl, and the store accepts it.  When extraParams
\* has no state key, the state parameter of the URL equals the returned
\* state and the provider's redirect with it passes validation; when
\* extraParams has a state key, the URL carries the caller's value instead.
C23_UrlStateIsStoredState ==
    /\ [](op.name = "getLoginUrl"
            => /\ op.ret = Str(op.key)
               /\ op.key \in DOMAIN store
               /\ store[op.key].expiresAt = now + TtlMs
               /\ ValidateState("memory", store, now, op.key).ret
               /\ IF ObjHas(op.args[2], "state")
                  THEN ObjGet(op.url, "state") = ObjGet(op.args[2], "state")
                  ELSE /\ ObjGet(op.url, "state") = op.ret
                       /\ ValidateState("memory", store, now,
                                        UrlState(op.url)).ret)
    /\ [][op.name = "getLoginUrl" /\ op'.name = "exchange"
            /\ ~ObjHas(op.args[2], "state")
            => /\ op'.key = op.key
               /\ op'.validated
               /\ op'.requests = <<"token">>]_vars

\* The provider's redirect with the state of a URL built later than time 0
\* passed validation, and its token request is in flight.
C23_Witness ==
    /\ op.name = "exchange" /\ op.validated
    /\ op.requests = <<"token">>
    /\ issued[op.key].status = "consumed"
    /\ now > 0
    /\ \E c \in BagToSet(calls) : c.state = op.key

\* ---------------------------------------------------------------- C24
\* C24: a state is removed from the store in the step that validates it,
\* which is the step that sends the token request; when the token, userinfo
\* or credentials request of that call then fails, the state is absent, and
\* a second exchangeCodeForToken with it throws the CSRF error and issues
\* no request.
C24_FailedExchangeCannotRetry ==
    /\ [][\A k \in Keys :
            ExchangeOf(k) /\ op'.validated
                => /\ k \in DOMAIN store
                   /\ k \notin DOMAIN store'
                   /\ op'.requests = <<"token">>
                   /\ \E c \in BagToSet(calls') :
                        c.state = k /\ c.pc = "awaitToken"]_vars
    /\ [][\A c \in BagToSet(calls) :
            /\ op'.name = "threw"
            /\ calls' = calls (-) SetToBag({c})
            /\ issued[c.state].status = "consumed"
            => /\ op'.error \in {"token exchange", "userinfo fetch",
                                 "sesame credentials fetch"}
               /\ c.state \notin DOMAIN store'
               /\ LET r == ExchangeStart("memory", store', now', TRUE, c.state)
                  IN  /\ r.error = "csrf"
                      /\ ~r.validated
                      /\ r.requests = <<>>]_vars
    /\ [][\A k \in Keys :
            /\ op.name = "threw"
            /\ ExchangeOf(k)
            /\ issued[k].status = "consumed"
            => /\ op'.error \in {"csrf", "code required"}
               /\ op'.requests = <<>>
               /\ calls' = calls]_vars

\* The credentials request of a call failed after its token and userinfo
\* requests succeeded; the state the call consumed is not in the store and
\* would be rejected.
C24_Witness ==
    /\ op.name = "threw" /\ op.error = "sesame credentials fetch"
    /\ op.validated
    /\ \E k \in Keys :
        /\ issued[k].status = "consumed"
        /\ k \notin DOMAIN store
        /\ ExchangeStart("memory", store, now, TRUE, k).error = "csrf"

\* ---------------------------------------------------------------- C25
\* C25: an exchangeCodeForToken that fails its code check leaves the store
\* unchanged, and an unexpired state passed with it still passes a
\* validation afterwards; one that fails its state check removes no entry
\* of another state and changes none, so every state that was present is
\* still present with its value; the only entry it can remove is the
\* expired entry of the state it was given, which was absent already.
C25_FailedCheckKeepsStore ==
    /\ [][op'.name = "exchange" /\ op'.error = "code required"
            => /\ store' = store
               /\ issued' = issued
               /\ calls' = calls
               /\ op'.requests = <<>>
               /\ \A k \in Keys :
                    op'.key = k /\ k \in DOMAIN store /\ store[k].expiresAt > now
                        => /\ ValidateState("memory", store', now', k).ret
                           /\ ExchangeStart("memory", store', now', TRUE, k).validated]_vars
    /\ [][op'.name = "exchange" /\ op'.error = "csrf"
            => /\ \A j \in DOMAIN store \ {op'.key} :
                    j \in DOMAIN store' /\ store'[j] = store[j]
               /\ DOMAIN store' \subseteq DOMAIN store
               /\ \A j \in Keys :
                    StoreGet(store', now', j).ret = StoreGet(store, now, j).ret
               /\ store' # store
                    => /\ op'.key \in DOMAIN store
                       /\ store[op'.key].expiresAt <= now
                       /\ DOMAIN store' = DOMAIN store \ {op'.key}]_vars

\* A call with an empty code and a live state was rejected later than
\* time 0 while the unexpired entry of another state was in the store; both
\* entries are still there.
C25_Witness ==
    /\ op.name = "exchange" /\ op.error = "code required"
    /\ op.key \in DOMAIN store
    /\ issued[op.key].status = "live"
    /\ store[op.key].expiresAt > now
    /\ now > 0
    /\ \E j \in DOMAIN store \ {op.key} : store[j].expiresAt > now

\* A call carrying an expired state that the sweep had not removed was
\* rejected with the CSRF error and purged that state's entry, next to the
\* unexpired entry of another state.
C25_PurgeWitness ==
    /\ op.name = "exchange" /\ op.error = "csrf"
    /\ op.key \in Keys
    /\ issued[op.key].status = "expired"
    /\ op.key \notin DOMAIN store
    /\ \E j \in DOMAIN store : store[j].expiresAt > now

====
